---- MODULE Spec2Model ----
(***************************************************************************)
(* Rate-ingestion subsystem of valutatrade_hub: the rate store             *)
(* (parser_service/storage.py), the update coordinator                     *)
(* (parser_service/updater.py), the source adapters                        *)
(* (parser_service/api_clients.py) and the scheduler                       *)
(* (parser_service/scheduler.py), with the foreground "update-rates"       *)
(* command of the CLI (cli/interface.py) and the program's main (main.py). *)
(***************************************************************************)
EXTENDS Integers, Sequences, FiniteSets, TLC

VARIABLES
    files,      \* path -> content of the file on disk ("rates", "history")
    now,        \* the wall clock read by datetime.now()
    pc,         \* per thread of control: its position inside run_update
    sel,        \* per thread: run_update's argument `source`
    phase,      \* per thread: which adapter block of run_update it is in
    results,    \* per thread: run_update's local `results`
    pending,    \* per thread: the items of the fetched mapping not yet appended
    rates,      \* per thread: the local crypto_rates / fiat_rates
    tmp,        \* per thread: the NamedTemporaryFile of _atomic_write in progress
    cycles,     \* number of run_update calls (or direct store writes) begun so far
    hlog,       \* history: the records in the order their appends completed
    cyc,        \* history: per thread, what the current cycle saw and did
    thread,     \* Scheduler._thread: "none" or the thread it refers to
    stopEvent,  \* Scheduler._stop_event
    lpc,        \* per scheduler thread: its position inside _run_loop
    mpc,        \* the main thread's position inside start() / stop()
    sched,      \* history: what the last lifecycle call did
    loaded,     \* the reader: the outcome of the last load of a file
    acct        \* the trading side: the portfolio in memory and on disk, the last call

vars == <<files, now, pc, sel, phase, results, pending, rates, tmp, cycles,
          hlog, cyc, thread, stopEvent, lpc, mpc, sched, loaded, acct>>

storeVars == <<files, now, pc, sel, phase, results, pending, rates, tmp,
               cycles, hlog, cyc>>
schedVars == <<thread, stopEvent, lpc, mpc, sched>>
others == <<thread, stopEvent, lpc, mpc, sched, loaded, acct>>

(***************************************************************************)
(* Bounds of the model.                                                    *)
(***************************************************************************)
MaxClock == 2
MaxCycles == 2
MaxPrice == 2
MaxNow == 302

Threads == {"t1", "t2"}
Procs == {"fg"} \cup Threads

(***************************************************************************)
(* Configuration (parser_service/config.py).                               *)
(***************************************************************************)
BASE_CURRENCY == "USD"
CRYPTO_ID_MAP == << <<"BTC", "bitcoin">> >>
FIAT_CURRENCIES == <<"EUR", "GBP">>
EXCHANGERATE_API_KEY == "7ed19eee89d34a62b962ee63"
CACHE_TTL_SECONDS == 300

(***************************************************************************)
(* Values.  A dict is a function; the empty dict is EmptyMap.  A string    *)
(* that the code builds or splits is a sequence of tokens, "_" being the   *)
(* separator.  A rate is the rational n/d with d > 0.                      *)
(***************************************************************************)
EmptyMap == [x \in {} |-> 0]

Put(m, k, v) == [x \in DOMAIN m \cup {k} |-> IF x = k THEN v ELSE m[x]]

Update(m, n) == [x \in DOMAIN m \cup DOMAIN n |-> IF x \in DOMAIN n THEN n[x] ELSE m[x]]

ItemsToMap(items) == [k \in {items[i][1] : i \in DOMAIN items} |->
                        LET i == CHOOSE j \in DOMAIN items :
                                   /\ items[j][1] = k
                                   /\ \A l \in DOMAIN items : items[l][1] = k => l <= j
                        IN items[i][2]]

PairKey(code, base) == <<code, "_", base>>

Float(price) == [n |-> price, d |-> 1]

Inverse(mult) == IF mult > 0 THEN [n |-> 1, d |-> mult] ELSE [n |-> -1, d |-> -mult]

Lower(tok) == CASE tok = "USD" -> "usd" [] tok = "EUR" -> "eur" [] tok = "BTC" -> "btc"
                [] tok = "GBP" -> "gbp" [] OTHER -> tok

Upper(tok) == CASE tok = "usd" -> "USD" [] tok = "eur" -> "EUR" [] tok = "btc" -> "BTC"
                [] tok = "gbp" -> "GBP" [] OTHER -> tok

UpperStr(s) == [i \in DOMAIN s |-> Upper(s[i])]

RECURSIVE Split(_)
Split(s) ==
    IF \A i \in DOMAIN s : s[i] # "_" THEN <<s>>
    ELSE LET i == CHOOSE j \in DOMAIN s :
                      s[j] = "_" /\ \A l \in 1..(j - 1) : s[l] # "_"
         IN <<SubSeq(s, 1, i - 1)>> \o Split(SubSeq(s, i + 1, Len(s)))

(***************************************************************************)
(* Source adapters (parser_service/api_clients.py).  A response is what    *)
(* requests.get() and response.json() give the adapter; fetch_rates either *)
(* returns the items of its mapping, in insertion order, or raises         *)
(* ApiRequestError with a message.                                         *)
(***************************************************************************)
Raised(msg) == [ok |-> FALSE, items |-> <<>>, msg |-> msg, calls |-> 0]

Fetched(items) == [ok |-> TRUE, items |-> items, msg |-> "", calls |-> 0]

\* requests.get() was called on the way to outcome r.
Requested(r) == [r EXCEPT !.calls = 1]

CoinGeckoFetch(resp) ==
    Requested(
    CASE resp.kind = "timeout" -> Raised("timeout")
      [] resp.kind = "connection" -> Raised("connection")
      [] resp.kind = "http" ->
            IF resp.code = 429 THEN Raised("rate_limited") ELSE Raised("http_status")
      [] resp.kind = "ok" ->
            LET present == SelectSeq(CRYPTO_ID_MAP,
                               LAMBDA e : /\ e[2] \in DOMAIN resp.data
                                          /\ Lower(BASE_CURRENCY) \in DOMAIN resp.data[e[2]])
            IN Fetched([i \in DOMAIN present |->
                          <<PairKey(present[i][1], BASE_CURRENCY),
                            Float(resp.data[present[i][2]][Lower(BASE_CURRENCY)])>>])
      [] OTHER -> Raised("unknown"))

\* A loop that stops at the currency it cannot convert and returns what it has.
ConvertRatesPartial(conversion_rates) ==
    LET present == SelectSeq(FIAT_CURRENCIES, LAMBDA c : c \in DOMAIN conversion_rates)
        good == {i \in DOMAIN present :
                    \A j \in 1..i : conversion_rates[present[j]] # 0}
    IN Fetched([i \in 1..Cardinality(good) |->
                  <<PairKey(present[i], BASE_CURRENCY),
                    Inverse(conversion_rates[present[i]])>>])

\* The mapping built by the loop over FIAT_CURRENCIES, or the ZeroDivisionError of
\* `1.0 / x` that `except Exception` turns into ApiRequestError: the mapping built
\* so far is dropped with the frame.
ConvertRates(conversion_rates) ==
    LET present == SelectSeq(FIAT_CURRENCIES, LAMBDA c : c \in DOMAIN conversion_rates)
    IN IF \E i \in DOMAIN present : conversion_rates[present[i]] = 0
       THEN Raised("unknown")
       ELSE Fetched([i \in DOMAIN present |->
                       <<PairKey(present[i], BASE_CURRENCY),
                         Inverse(conversion_rates[present[i]])>>])

ExchangeRateFetch(key, resp) ==
    IF key = "" \/ key = "YOUR_API_KEY_HERE" THEN Raised("no_api_key")
    ELSE Requested(
         CASE resp.kind = "timeout" -> Raised("timeout")
           [] resp.kind = "connection" -> Raised("connection")
           [] resp.kind = "http" ->
                 IF resp.code = 401 THEN Raised("auth")
                 ELSE IF resp.code = 429 THEN Raised("rate_limited")
                 ELSE Raised("http_status")
           [] resp.kind = "ok" ->
                 IF resp.result # "success" THEN Raised("unknown")
                 ELSE ConvertRates(resp.conversion_rates)
           [] OTHER -> Raised("unknown"))

(***************************************************************************)
(* Rate store (parser_service/storage.py).  A file on disk is absent, or   *)
(* cannot be opened, or holds bytes that are not UTF-8, or text that is    *)
(* not JSON (garbage, an empty or a partly written file), or a JSON value. *)
(***************************************************************************)
Absent == [kind |-> "absent"]

JsonFile(v) == [kind |-> "json", val |-> v]

Obj(doc) == [t |-> "obj", doc |-> doc]

Arr(items) == [t |-> "arr", items |-> items]

Returned(data) == [raised |-> FALSE, exc |-> "", data |-> data]

Raises(exc) == [raised |-> TRUE, exc |-> exc, data |-> EmptyMap]

DefaultRates(t) == [pairs |-> EmptyMap, last_refresh |-> t]

LoadCurrentRates(file, t) ==
    CASE file.kind = "absent" -> Returned(DefaultRates(t))
      [] file.kind = "unreadable" -> Returned(DefaultRates(t))
      [] file.kind \in {"garbage", "empty", "partial"} -> Returned(DefaultRates(t))
      [] file.kind = "badutf8" -> Raises("UnicodeDecodeError")
      [] file.kind = "json" ->
            IF file.val.t = "obj"
            THEN LET d1 == IF "pairs" \in DOMAIN file.val.doc THEN file.val.doc
                           ELSE Put(file.val.doc, "pairs", EmptyMap)
                     d2 == IF "last_refresh" \in DOMAIN d1 THEN d1
                           ELSE Put(d1, "last_refresh", t)
                 IN Returned(d2)
            ELSE Raises("TypeError")

LoadHistory(file) ==
    CASE file.kind = "absent" -> Returned(<<>>)
      [] file.kind = "unreadable" -> Returned(<<>>)
      [] file.kind \in {"garbage", "empty", "partial"} -> Returned(<<>>)
      [] file.kind = "badutf8" -> Raises("UnicodeDecodeError")
      [] file.kind = "json" ->
            IF file.val.t = "arr" THEN Returned(file.val.items) ELSE Returned(<<>>)

Quote(rate, t, source) == [rate |-> rate, updated_at |-> t, source |-> source]

MergeRatesReplace(current_data, rts, source, t) ==
    [current_data EXCEPT
        !.pairs = [k \in DOMAIN rts |-> Quote(rts[k], t, source)],
        !.last_refresh = t]

\* A merge that leaves last_refresh as it found it.
MergeRatesKeepRefresh(current_data, rts, source, t) ==
    [current_data EXCEPT
        !.pairs = Update(@, [k \in DOMAIN rts |-> Quote(rts[k], t, source)])]

\* A merge that keeps the updated_at and source of a pair the snapshot already holds.
MergeRatesStale(current_data, rts, source, t) ==
    LET old == current_data.pairs
    IN [current_data EXCEPT
           !.pairs = Update(old, [k \in DOMAIN rts |->
                                    IF k \in DOMAIN old THEN [old[k] EXCEPT !.rate = rts[k]]
                                    ELSE Quote(rts[k], t, source)]),
           !.last_refresh = t]

MergeRates(current_data, rts, source, t) ==
    [current_data EXCEPT
        !.pairs = Update(@, [k \in DOMAIN rts |-> Quote(rts[k], t, source)]),
        !.last_refresh = t]

ValidPair(pair) == pair # <<>> /\ \E i \in DOMAIN pair : pair[i] = "_"

HistoryRecord(pair, rate, source, t) ==
    LET parts == Split(pair)
        from_currency == UpperStr(parts[1])
        to_currency == IF Len(parts) > 1 THEN UpperStr(parts[2]) ELSE <<BASE_CURRENCY>>
    IN [id |-> from_currency \o <<"_">> \o to_currency \o <<"_", t>>,
        from_currency |-> from_currency,
        to_currency |-> to_currency,
        rate |-> rate,
        timestamp |-> t,
        source |-> source,
        meta |-> [request_ms |-> 0, status_code |-> 200]]

PrependRecord(history, record) == <<record>> \o history

AppendRecord(history, record) == Append(history, record)

(***************************************************************************)
(* _atomic_write's effect on the files of the directory: the temporary     *)
(* file is another file, so creating and writing it leave the target as it *)
(* is; os.replace puts the whole content under the target's name.          *)
(***************************************************************************)
NoRecord == [id |-> <<>>]

NoTmp == [st |-> "none", path |-> "none", data |-> Absent, old |-> Absent, rec |-> NoRecord]

OpenTruncate(fs, t) == [fs EXCEPT ![t.path] = [kind |-> "empty"]]

TmpCreate(fs, t) == fs

TmpWrite(fs, t) == fs

Replace(fs, t) == [fs EXCEPT ![t.path] = t.data]

(***************************************************************************)
(* Update coordinator (parser_service/updater.py), one step at a time.     *)
(***************************************************************************)
Sources == {"none", "coingecko", "exchangerate"}

NoResults == [success |-> TRUE, updated_pairs |-> EmptyMap, errors |-> <<>>, timestamp |-> 0]

NoCyc == [snap0 |-> Absent, fault |-> FALSE, crypto |-> "none", forex |-> "none",
          cryptoRates |-> EmptyMap, forexRates |-> EmptyMap, at |-> "none",
          h0 |-> 0, writes |-> 0, cryptoCalls |-> 0, forexCalls |-> 0,
          cryptoResp |-> [kind |-> "none"], forexResp |-> [kind |-> "none"]]

NotLoaded == [op |-> "none", file |-> Absent, raised |-> FALSE, exc |-> "", data |-> EmptyMap]

\* Nobody is logged in: no portfolio in memory, none read from disk, no call made.
NoAcct == [mem |-> EmptyMap, disk |-> EmptyMap, last |-> [op |-> "none"]]

NoSched == [last |-> "none", stopped |-> FALSE, confirmed |-> FALSE]

AdapterName(ph) == IF ph = "crypto" THEN "CoinGecko" ELSE "ExchangeRate-API"

ErrorEntry(ph, msg) == <<AdapterName(ph), ":", msg>>

Contains(str, tok) == \E i \in DOMAIN str : str[i] = tok

\* An except clause that leaves `success` as it is.
FailedKeepsSuccess(res, ph, msg) ==
    [res EXCEPT !.errors = Append(@, ErrorEntry(ph, msg))]

\* An except clause that puts its entry in front of the list.
FailedFirst(res, ph, msg) ==
    [res EXCEPT !.success = FALSE, !.errors = <<ErrorEntry(ph, msg)>> \o @]

Failed(res, ph, msg) ==
    [res EXCEPT !.success = FALSE, !.errors = Append(@, ErrorEntry(ph, msg))]

FirstPhase(s) == IF s = "none" \/ s = "coingecko" THEN "crypto" ELSE "forex"

\* A forex block without its `if source is None or source == "exchangerate"`.
PhaseAfterAll(ph, s) == IF ph = "crypto" THEN "forex" ELSE "save"

\* The block after block `ph` of run_update(source = s): the forex block, or the save.
PhaseAfter(ph, s) ==
    IF ph = "crypto" /\ (s = "none" \/ s = "exchangerate") THEN "forex" ELSE "save"

PcOf(ph) == IF ph = "save" THEN "save" ELSE "fetch"

\* A coordinator that always uses the generic label.
SourceNameGeneric(errors) == "ParserService"

SourceName(errors) ==
    IF Len(errors) = 1
    THEN (IF Contains(errors[1], "ExchangeRate-API") THEN "CoinGecko" ELSE "ExchangeRate-API")
    ELSE IF Len(errors) = 0 THEN "CoinGecko+ExchangeRate-API"
    ELSE "ParserService"

Prices == 1..MaxPrice

CoinIds == {CRYPTO_ID_MAP[i][2] : i \in DOMAIN CRYPTO_ID_MAP}

FiatCodes == {FIAT_CURRENCIES[i] : i \in DOMAIN FIAT_CURRENCIES}

CryptoData == UNION {[S -> {[usd |-> q] : q \in Prices}] : S \in SUBSET CoinIds}

\* Responses that quote the first configured currency only.
ForexData == UNION {[S -> Prices] : S \in SUBSET {Head(FIAT_CURRENCIES)}}

CryptoInputs == {[kind |-> "timeout"]} \cup {[kind |-> "ok", data |-> d] : d \in CryptoData}

ForexInputs ==
    {[kind |-> "timeout"]}
        \cup {[kind |-> "ok", result |-> "success", conversion_rates |-> d] : d \in ForexData}

FetchRates(ph, resp) ==
    IF ph = "crypto" THEN CoinGeckoFetch(resp)
    ELSE ExchangeRateFetch(EXCHANGERATE_API_KEY, resp)

\* The call of run_update(source = s) by p: its first statements.
RunUpdate(p, s) ==
    /\ pc[p] = "idle"
    /\ cycles < MaxCycles
    /\ cycles' = cycles + 1
    /\ sel' = [sel EXCEPT ![p] = s]
    /\ results' = [results EXCEPT ![p] = [NoResults EXCEPT !.timestamp = now]]
    /\ phase' = [phase EXCEPT ![p] = FirstPhase(s)]
    /\ pc' = [pc EXCEPT ![p] = "fetch"]
    /\ cyc' = [cyc EXCEPT ![p] = [NoCyc EXCEPT !.snap0 = files["rates"], !.h0 = Len(hlog)]]
    /\ UNCHANGED <<files, now, pending, rates, tmp, hlog>>

\* An adapter block that never calls append_to_history.
NothingToAppendEver(items) == TRUE

\* `for pair, rate in crypto_rates.items()`: the loop has nothing to append.
NothingToAppend(items) == items = <<>>

\* A run_update that calls save_current_rates whatever was fetched.
NothingToMergeNever(updated_pairs) == FALSE

\* `if results["updated_pairs"]` is false: the save is skipped.
NothingToMerge(updated_pairs) == updated_pairs = EmptyMap

\* One adapter block of run_update up to its first append: the fetch, whose response
\* is one of cin (crypto) or fin (forex), and the except clause.
FetchWith(p, cin, fin) ==
    /\ pc[p] = "fetch"
    /\ \E resp \in (IF phase[p] = "crypto" THEN cin ELSE fin) :
         LET r == FetchRates(phase[p], resp)
             next == PhaseAfter(phase[p], sel[p])
             got == ItemsToMap(r.items)
             seen == IF phase[p] = "crypto"
                     THEN [cyc[p] EXCEPT !.cryptoCalls = @ + 1, !.cryptoResp = resp]
                     ELSE [cyc[p] EXCEPT !.forexCalls = @ + 1, !.forexResp = resp]
         IN IF r.ok
            THEN /\ rates' = [rates EXCEPT ![p] = got]
                 /\ pending' = [pending EXCEPT ![p] = r.items]
                 /\ cyc' = [cyc EXCEPT ![p] =
                              IF phase[p] = "crypto"
                              THEN [seen EXCEPT !.crypto = "ok", !.cryptoRates = got]
                              ELSE [seen EXCEPT !.forex = "ok", !.forexRates = got]]
                 /\ IF NothingToAppend(r.items)
                    THEN /\ results' = [results EXCEPT ![p].updated_pairs = Update(@, got)]
                         /\ phase' = [phase EXCEPT ![p] = next]
                         /\ pc' = [pc EXCEPT ![p] = PcOf(next)]
                    ELSE /\ pc' = [pc EXCEPT ![p] = "append"]
                         /\ UNCHANGED <<results, phase>>
            ELSE /\ results' = [results EXCEPT ![p] = Failed(@, phase[p], r.msg)]
                 /\ cyc' = [cyc EXCEPT ![p] =
                              IF phase[p] = "crypto" THEN [seen EXCEPT !.crypto = "raised"]
                              ELSE [seen EXCEPT !.forex = "raised"]]
                 /\ phase' = [phase EXCEPT ![p] = next]
                 /\ pc' = [pc EXCEPT ![p] = PcOf(next)]
                 /\ UNCHANGED <<rates, pending>>
    /\ UNCHANGED <<files, now, sel, tmp, cycles, hlog, others>>

Fetch(p) == FetchWith(p, CryptoInputs, ForexInputs)

\* append_to_history up to the call of _atomic_write: the record, and the list read.
AppendToHistory(p) ==
    /\ pc[p] = "append"
    /\ LET pair == Head(pending[p])[1]
           rate == Head(pending[p])[2]
           next == PhaseAfter(phase[p], sel[p])
           h == LoadHistory(files["history"])
       IN IF ~ValidPair(pair) \/ h.raised
          THEN /\ results' = [results EXCEPT ![p] =
                                Failed(@, phase[p],
                                       IF ~ValidPair(pair) THEN "ValueError" ELSE h.exc)]
               /\ phase' = [phase EXCEPT ![p] = next]
               /\ pc' = [pc EXCEPT ![p] = PcOf(next)]
               /\ UNCHANGED tmp
          ELSE /\ tmp' = [tmp EXCEPT ![p] =
                            LET record == HistoryRecord(pair, rate, AdapterName(phase[p]), now)
                            IN [st |-> "none", path |-> "history",
                                data |-> JsonFile(Arr(AppendRecord(h.data, record))),
                                old |-> files["history"], rec |-> record]]
               /\ pc' = [pc EXCEPT ![p] = "aw_create"]
               /\ UNCHANGED <<results, phase>>
    /\ UNCHANGED <<files, now, sel, pending, rates, cycles, hlog, cyc, others>>

\* save_current_rates up to the call of _atomic_write, after run_update's choice of label.
Save(p) ==
    /\ pc[p] = "save"
    /\ IF NothingToMerge(results[p].updated_pairs)
       THEN /\ pc' = [pc EXCEPT ![p] = "done"]
            /\ UNCHANGED tmp
       ELSE LET current == LoadCurrentRates(files["rates"], now)
            IN IF current.raised
               THEN /\ pc' = [pc EXCEPT ![p] = "raised"]
                    /\ UNCHANGED tmp
               ELSE /\ tmp' = [tmp EXCEPT ![p] =
                                 [st |-> "none", path |-> "rates",
                                  data |-> JsonFile(Obj(MergeRates(current.data,
                                              results[p].updated_pairs,
                                              SourceName(results[p].errors), now))),
                                  old |-> files["rates"], rec |-> NoRecord]]
                    /\ pc' = [pc EXCEPT ![p] = "aw_create"]
    /\ UNCHANGED <<files, now, sel, phase, results, pending, rates, cycles, hlog, cyc, others>>

AwCreate(p) ==
    /\ pc[p] = "aw_create"
    /\ tmp' = [tmp EXCEPT ![p].st = "created"]
    /\ files' = TmpCreate(files, tmp[p])
    /\ pc' = [pc EXCEPT ![p] = "aw_write"]
    /\ UNCHANGED <<now, sel, phase, results, pending, rates, cycles, hlog, cyc, others>>

AwWrite(p) ==
    /\ pc[p] = "aw_write"
    /\ tmp' = [tmp EXCEPT ![p].st = "written"]
    /\ files' = TmpWrite(files, tmp[p])
    /\ pc' = [pc EXCEPT ![p] = "aw_rename"]
    /\ UNCHANGED <<now, sel, phase, results, pending, rates, cycles, hlog, cyc, others>>

\* os.replace, and the caller's next statement.
AwRename(p) ==
    /\ pc[p] = "aw_rename"
    /\ files' = Replace(files, tmp[p])
    /\ tmp' = [tmp EXCEPT ![p].st = "renamed"]
    /\ IF tmp[p].path = "history"
       THEN LET rest == Tail(pending[p])
                next == PhaseAfter(phase[p], sel[p])
            IN /\ hlog' = Append(hlog, tmp[p].rec)
               /\ pending' = [pending EXCEPT ![p] = rest]
               /\ IF rest = <<>>
                  THEN /\ results' = [results EXCEPT ![p].updated_pairs = Update(@, rates[p])]
                       /\ phase' = [phase EXCEPT ![p] = next]
                       /\ pc' = [pc EXCEPT ![p] = PcOf(next)]
                  ELSE /\ pc' = [pc EXCEPT ![p] = "append"]
                       /\ UNCHANGED <<results, phase>>
       ELSE /\ pc' = [pc EXCEPT ![p] = "done"]
            /\ UNCHANGED <<hlog, pending, results, phase>>
    /\ cyc' = [cyc EXCEPT ![p].writes = IF tmp[p].path = "rates" THEN @ + 1 ELSE @]
    /\ UNCHANGED <<now, sel, rates, cycles, others>>

\* An OSError out of _atomic_write (no space, no permission): the adapter block's
\* except clause takes it during an append, nothing takes it during the save.
AwFail(p) ==
    /\ pc[p] \in {"aw_create", "aw_write", "aw_rename"}
    /\ tmp' = [tmp EXCEPT ![p].st = "failed"]
    /\ cyc' = [cyc EXCEPT ![p].fault = TRUE]
    /\ IF tmp[p].path = "history"
       THEN LET next == PhaseAfter(phase[p], sel[p])
            IN /\ results' = [results EXCEPT ![p] = Failed(@, phase[p], "OSError")]
               /\ phase' = [phase EXCEPT ![p] = next]
               /\ pc' = [pc EXCEPT ![p] = PcOf(next)]
       ELSE /\ pc' = [pc EXCEPT ![p] = "raised"]
            /\ UNCHANGED <<results, phase>>
    /\ UNCHANGED <<files, now, sel, pending, rates, cycles, hlog, others>>

ResetLocals(p) ==
    /\ pc' = [pc EXCEPT ![p] = "idle"]
    /\ sel' = [sel EXCEPT ![p] = "none"]
    /\ phase' = [phase EXCEPT ![p] = "none"]
    /\ results' = [results EXCEPT ![p] = NoResults]
    /\ pending' = [pending EXCEPT ![p] = <<>>]
    /\ rates' = [rates EXCEPT ![p] = EmptyMap]
    /\ tmp' = [tmp EXCEPT ![p] = NoTmp]
    /\ cyc' = [cyc EXCEPT ![p] = NoCyc]

\* run_update has returned or raised to the update-rates command, which prints and ends.
Return(p) ==
    /\ p = "fg"
    /\ pc[p] \in {"done", "raised"}
    /\ ResetLocals(p)
    /\ UNCHANGED <<files, now, cycles, hlog, others>>

\* The process is killed while p is inside _atomic_write, or right after its
\* os.replace; what is on disk stays.
Crash(p) ==
    /\ pc[p] \in {"aw_create", "aw_write", "aw_rename"}
         \/ (pc[p] \notin {"idle", "crashed"} /\ tmp[p].st = "renamed")
    /\ pc' = [pc EXCEPT ![p] = "crashed"]
    /\ cyc' = [cyc EXCEPT ![p].at = pc[p]]
    /\ UNCHANGED <<files, now, sel, phase, results, pending, rates, tmp, cycles, hlog, others>>

\* The program is started again.
Restart(p) ==
    /\ pc[p] = "crashed"
    /\ ResetLocals(p)
    /\ UNCHANGED <<files, now, cycles, hlog, others>>

Tick ==
    /\ now < MaxClock
    /\ now' = now + 1
    /\ UNCHANGED <<files, pc, sel, phase, results, pending, rates, tmp, cycles, hlog, cyc, others>>

Init ==
    /\ files = [f \in {"rates", "history"} |-> Absent]
    /\ now = 0
    /\ pc = [p \in Procs |-> "idle"]
    /\ sel = [p \in Procs |-> "none"]
    /\ phase = [p \in Procs |-> "none"]
    /\ results = [p \in Procs |-> NoResults]
    /\ pending = [p \in Procs |-> <<>>]
    /\ rates = [p \in Procs |-> EmptyMap]
    /\ tmp = [p \in Procs |-> NoTmp]
    /\ cycles = 0
    /\ hlog = <<>>
    /\ cyc = [p \in Procs |-> NoCyc]
    /\ thread = "none"
    /\ stopEvent = FALSE
    /\ lpc = [t \in Threads |-> "none"]
    /\ mpc = "idle"
    /\ sched = NoSched
    /\ loaded = NotLoaded
    /\ acct = NoAcct

\* The update-rates command of the CLI calls run_update(source) on the main thread.
UpdateRates(s) ==
    /\ mpc = "idle"
    /\ RunUpdate("fg", s)
    /\ UNCHANGED others

(***************************************************************************)
(* Scheduler (parser_service/scheduler.py).  The main thread calls start() *)
(* and stop(); each Thread that start() creates runs _run_loop.            *)
(***************************************************************************)
Alive(t) == lpc[t] \in {"check", "enter", "cycle", "wait"}

IsAlive == thread # "none" /\ Alive(thread)

FreeThread == IF lpc["t1"] = "none" THEN "t1" ELSE "t2"

\* start() without its is_alive() test.
StartAnyway ==
    /\ mpc = "idle"
    /\ pc["fg"] = "idle"
    /\ lpc[FreeThread] = "none"
    /\ stopEvent' = FALSE
    /\ thread' = FreeThread
    /\ lpc' = [lpc EXCEPT ![FreeThread] = "check"]
    /\ sched' = [sched EXCEPT !.last = "start", !.stopped = FALSE, !.confirmed = FALSE]
    /\ UNCHANGED <<storeVars, mpc, loaded, acct>>

Start ==
    /\ mpc = "idle"
    /\ pc["fg"] = "idle"
    /\ IF IsAlive
       THEN /\ sched' = [sched EXCEPT !.last = "start_noop"]
            /\ UNCHANGED <<thread, stopEvent, lpc>>
       ELSE /\ lpc[FreeThread] = "none"
            /\ stopEvent' = FALSE
            /\ thread' = FreeThread
            /\ lpc' = [lpc EXCEPT ![FreeThread] = "check"]
            /\ sched' = [sched EXCEPT !.last = "start", !.stopped = FALSE,
                                      !.confirmed = FALSE]
    /\ UNCHANGED <<storeVars, mpc, loaded, acct>>

\* stop() up to its join: the signal.  With no live thread stop() does nothing.
StopSignal ==
    /\ mpc = "idle"
    /\ pc["fg"] = "idle"
    /\ IF IsAlive
       THEN /\ stopEvent' = TRUE
            /\ mpc' = "join"
            /\ UNCHANGED sched
       ELSE /\ sched' = [sched EXCEPT !.last = "stop_noop", !.stopped = TRUE,
                                      !.confirmed = TRUE]
            /\ UNCHANGED <<stopEvent, mpc>>
    /\ UNCHANGED <<storeVars, thread, lpc, loaded, acct>>

\* join() with no timeout: it returns only when the thread has ended.
StopJoinNoTimeout ==
    /\ mpc = "join"
    /\ ~Alive(thread)
    /\ mpc' = "idle"
    /\ sched' = [sched EXCEPT !.last = "stop", !.stopped = TRUE, !.confirmed = TRUE]
    /\ UNCHANGED <<storeVars, thread, stopEvent, lpc, loaded, acct>>

\* join(timeout=5.0) returns: the thread has ended, or the five seconds have passed.
StopJoin ==
    /\ mpc = "join"
    /\ mpc' = "idle"
    /\ sched' = [sched EXCEPT !.last = "stop", !.stopped = TRUE,
                              !.confirmed = ~Alive(thread)]
    /\ UNCHANGED <<storeVars, thread, stopEvent, lpc, loaded, acct>>

\* `while True`: the loop enters its body whatever the event says.
LoopCheckAlways(t) ==
    /\ lpc[t] = "check"
    /\ lpc' = [lpc EXCEPT ![t] = "enter"]
    /\ UNCHANGED <<storeVars, thread, stopEvent, mpc, sched, loaded, acct>>

\* `while not self._stop_event.is_set()`: leave the loop, or enter its body.
LoopCheck(t) ==
    /\ lpc[t] = "check"
    /\ lpc' = [lpc EXCEPT ![t] = IF stopEvent THEN "dead" ELSE "enter"]
    /\ UNCHANGED <<storeVars, thread, stopEvent, mpc, sched, loaded, acct>>

\* The body of the loop: "Scheduled rates update started" is logged and run_update()
\* is called.
LoopRun(t) ==
    /\ lpc[t] = "enter"
    /\ RunUpdate(t, "none")
    /\ lpc' = [lpc EXCEPT ![t] = "cycle"]
    /\ UNCHANGED <<thread, stopEvent, mpc, sched, loaded, acct>>

\* A loop without the except clause: an exception of run_update() ends the thread.
LoopCycleEndUncaught(t) ==
    /\ lpc[t] = "cycle"
    /\ pc[t] \in {"done", "raised"}
    /\ ResetLocals(t)
    /\ lpc' = [lpc EXCEPT ![t] = IF pc[t] = "raised" THEN "dead" ELSE "wait"]
    /\ UNCHANGED <<files, now, cycles, hlog, thread, stopEvent, mpc, sched, loaded, acct>>

\* run_update() has returned, or raised into the loop's except clause.
LoopCycleEnd(t) ==
    /\ lpc[t] = "cycle"
    /\ pc[t] \in {"done", "raised"}
    /\ ResetLocals(t)
    /\ lpc' = [lpc EXCEPT ![t] = "wait"]
    /\ UNCHANGED <<files, now, cycles, hlog, thread, stopEvent, mpc, sched, loaded, acct>>

\* time.sleep(interval) in the place of the wait: the event does not end it.
WaitNotSignalled(t) ==
    /\ FALSE
    /\ lpc[t] = "wait"
    /\ UNCHANGED vars

\* _stop_event.wait(timeout=interval) returns True: the event is set.
WaitSignalled(t) ==
    /\ lpc[t] = "wait"
    /\ stopEvent
    /\ lpc' = [lpc EXCEPT ![t] = "check"]
    /\ UNCHANGED <<storeVars, thread, stopEvent, mpc, sched, loaded, acct>>

\* _stop_event.wait(timeout=interval) returns False: the interval is over.
WaitTimedOut(t) ==
    /\ lpc[t] = "wait"
    /\ lpc' = [lpc EXCEPT ![t] = "check"]
    /\ UNCHANGED <<storeVars, thread, stopEvent, mpc, sched, loaded, acct>>

\* _stop_event.wait(timeout=interval) returns: the event is set, or the interval is over.
LoopWait(t) == WaitSignalled(t) \/ WaitTimedOut(t)

(***************************************************************************)
(* One thread of control: the update-rates command, run again and again,   *)
(* with storage faults and kills of the process.                           *)
(***************************************************************************)
SeqNext ==
    \/ \E s \in Sources : UpdateRates(s)
    \/ \E p \in {"fg"} : Fetch(p)
    \/ \E p \in {"fg"} : AppendToHistory(p)
    \/ \E p \in {"fg"} : Save(p)
    \/ \E p \in {"fg"} : AwCreate(p)
    \/ \E p \in {"fg"} : AwWrite(p)
    \/ \E p \in {"fg"} : AwRename(p)
    \/ \E p \in {"fg"} : AwFail(p)
    \/ \E p \in {"fg"} : Return(p)
    \/ \E p \in {"fg"} : Crash(p)
    \/ \E p \in {"fg"} : Restart(p)
    \/ Tick

SpecSeq == Init /\ [][SeqNext]_vars

(***************************************************************************)
(* The program (main.py): the scheduler is started, then the CLI runs its  *)
(* commands on the main thread while the scheduler's thread runs its loop. *)
(* The clock stands still here: every timestamp of a run is the same.      *)
(***************************************************************************)
Main ==
    /\ thread = "none"
    /\ Start

Next ==
    \/ Main
    \/ \E s \in Sources : UpdateRates(s)
    \/ \E p \in {"fg", "t1"} : Fetch(p)
    \/ \E p \in {"fg", "t1"} : AppendToHistory(p)
    \/ \E p \in {"fg", "t1"} : Save(p)
    \/ \E p \in {"fg", "t1"} : AwCreate(p)
    \/ \E p \in {"fg", "t1"} : AwWrite(p)
    \/ \E p \in {"fg", "t1"} : AwRename(p)
    \/ Return("fg")
    \/ LoopCheck("t1")
    \/ LoopRun("t1")
    \/ LoopCycleEnd("t1")
    \/ WaitTimedOut("t1")

Spec == Init /\ [][Next]_vars

(***************************************************************************)
(* The Scheduler under any sequence of start() and stop() calls.           *)
(***************************************************************************)
SchedNext ==
    \/ Start
    \/ StopSignal
    \/ StopJoin
    \/ \E t \in Threads : LoopCheck(t)
    \/ \E t \in Threads : LoopRun(t)
    \/ \E t \in Threads : LoopCycleEnd(t)
    \/ \E t \in Threads : LoopWait(t)
    \/ \E t \in Threads : Fetch(t)
    \/ \E t \in Threads : AppendToHistory(t)
    \/ \E t \in Threads : Save(t)
    \/ \E t \in Threads : AwCreate(t)
    \/ \E t \in Threads : AwWrite(t)
    \/ \E t \in Threads : AwRename(t)
    \/ \E t \in Threads : AwFail(t)

SpecSched == Init /\ [][SchedNext]_vars

\* join's timeout does expire; nothing else is assumed to make progress, so a cycle in
\* flight may last for ever.
SpecSchedJoin == SpecSched /\ WF_vars(StopJoin)

\* The scheduler's threads are scheduled: a loop that can take a step of its own
\* (not of run_update) does take it.
SpecSchedLoop ==
    /\ SpecSched
    /\ \A t \in Threads :
          /\ WF_vars(LoopCheck(t))
          /\ WF_vars(LoopRun(t))
          /\ WF_vars(LoopCycleEnd(t))
          /\ WF_vars(LoopWait(t))

\* The steps of thread t that need nothing but the processor: those of the loop,
\* the wait's return on the event, and those of a run_update() whose requests are
\* answered and whose writes succeed.  The end of the interval is not among them.
ThreadStep(t) ==
    \/ LoopCheck(t)
    \/ LoopRun(t)
    \/ LoopCycleEnd(t)
    \/ WaitSignalled(t)
    \/ Fetch(t)
    \/ AppendToHistory(t)
    \/ Save(t)
    \/ AwCreate(t)
    \/ AwWrite(t)
    \/ AwRename(t)

\* The scheduler's threads are scheduled and every cycle in flight terminates; the
\* interval may be as long as one likes.
SpecSchedStop == SpecSched /\ \A t \in Threads : WF_vars(ThreadStep(t))

(***************************************************************************)
(* run_update() on the main thread with every kind of response the         *)
(* adapters tell apart: a timeout, a refused connection, an HTTP status    *)
(* (401, 429, another), a body that is not what the API documents, and the *)
(* documented body.                                                        *)
(***************************************************************************)
HttpStatuses == {401, 429, 500}

BadResponses ==
    {[kind |-> "timeout"], [kind |-> "connection"], [kind |-> "invalid"]}
        \cup {[kind |-> "http", code |-> c] : c \in HttpStatuses}

\* Numbers a provider can send: a price, zero, a negative number.
AnyPrices == {-1, 0} \cup Prices

AllCryptoData == UNION {[S -> {[usd |-> q] : q \in AnyPrices}] : S \in SUBSET CoinIds}

AllForexData == UNION {[S -> AnyPrices] : S \in SUBSET FiatCodes}

AllCryptoInputs ==
    BadResponses \cup CryptoInputs \cup {[kind |-> "ok", data |-> d] : d \in AllCryptoData}

AllForexInputs ==
    BadResponses \cup ForexInputs
        \cup {[kind |-> "ok", result |-> "error", conversion_rates |-> EmptyMap]}
        \cup {[kind |-> "ok", result |-> "success", conversion_rates |-> d] :
                  d \in AllForexData}

FetchAny(p) == FetchWith(p, AllCryptoInputs, AllForexInputs)

FetchNext ==
    \/ \E s \in Sources : UpdateRates(s)
    \/ FetchAny("fg")
    \/ AppendToHistory("fg")
    \/ Save("fg")
    \/ AwCreate("fg")
    \/ AwWrite("fg")
    \/ AwRename("fg")
    \/ Return("fg")

SpecFetch == Init /\ [][FetchNext]_vars

(***************************************************************************)
(* run_update() on the main thread with forex responses that quote every   *)
(* configured currency, so that an adapter block has several appends to    *)
(* make, and with storage faults.                                          *)
(***************************************************************************)
BothForexInputs ==
    ForexInputs
        \cup {[kind |-> "ok", result |-> "success", conversion_rates |-> d] :
                  d \in [FiatCodes -> Prices]}

FetchBoth(p) == FetchWith(p, CryptoInputs, BothForexInputs)

FaultNext ==
    \/ \E s \in Sources : UpdateRates(s)
    \/ FetchBoth("fg")
    \/ AppendToHistory("fg")
    \/ Save("fg")
    \/ AwCreate("fg")
    \/ AwWrite("fg")
    \/ AwRename("fg")
    \/ AwFail("fg")
    \/ Return("fg")

SpecFault == Init /\ [][FaultNext]_vars

(***************************************************************************)
(* The adapters on their own: ParserConfig is built from an environment    *)
(* and fetch_rates is called once, with any response.  An environment maps *)
(* the names that are set to their values.                                 *)
(***************************************************************************)
NoEnv == EmptyMap

Environments ==
    {NoEnv} \cup {[EXCHANGERATE_API_KEY |-> k] : k \in {"", "YOUR_API_KEY_HERE", "k3y"}}

\* os.getenv(name, default)
GetEnv(env, name, default) == IF name \in DOMAIN env THEN env[name] ELSE default

\* The field EXCHANGERATE_API_KEY of the ParserConfig built in environment env.
ApiKeyOf(env) == GetEnv(env, "EXCHANGERATE_API_KEY", EXCHANGERATE_API_KEY)

ForexFetch ==
    /\ \E env \in Environments, resp \in AllForexInputs :
         loaded' = [op |-> "forex_fetch", env |-> env, resp |-> resp]
                       @@ ExchangeRateFetch(ApiKeyOf(env), resp)
    /\ UNCHANGED <<storeVars, schedVars, acct>>

CryptoFetch ==
    /\ \E resp \in AllCryptoInputs :
         loaded' = [op |-> "crypto_fetch", env |-> NoEnv, resp |-> resp]
                       @@ CoinGeckoFetch(resp)
    /\ UNCHANGED <<storeVars, schedVars, acct>>

AdapterNext == ForexFetch \/ CryptoFetch

SpecAdapter == Init /\ [][AdapterNext]_vars

(***************************************************************************)
(* Freshness of a cached rate (core/utils.py).  A timestamp string is ISO  *)
(* text with a UTC offset ("offset"), ISO text ending in "Z" ("zulu"), or  *)
(* text that is not a timestamp ("text"); secs is the instant it names, in *)
(* seconds.                                                                *)
(***************************************************************************)
Timestamps ==
    {[form |-> f, secs |-> n] : f \in {"offset", "zulu"}, n \in {0, 1}}
        \cup {[form |-> "text", secs |-> 0]}

Ttls == {1, CACHE_TTL_SECONDS}

\* updated_at.replace("Z", "+00:00")
ReplaceZ(ts) == IF ts.form = "zulu" THEN [ts EXCEPT !.form = "offset"] ELSE ts

\* datetime.fromisoformat: the datetime, or ValueError.
FromIsoFormat(ts) ==
    IF ts.form = "offset" THEN [ok |-> TRUE, secs |-> ts.secs] ELSE [ok |-> FALSE, secs |-> 0]

\* A test that takes the record to be fresh at the exact expiry.
IsRateCacheFreshInclusive(updated_at, ttl_seconds, t) ==
    LET updated_dt == FromIsoFormat(ReplaceZ(updated_at))
    IN IF updated_dt.ok THEN t - updated_dt.secs <= ttl_seconds ELSE FALSE

\* is_rate_cache_fresh(updated_at, ttl_seconds) called when the clock reads t.
IsRateCacheFresh(updated_at, ttl_seconds, t) ==
    LET updated_dt == FromIsoFormat(ReplaceZ(updated_at))
    IN IF updated_dt.ok THEN t - updated_dt.secs < ttl_seconds ELSE FALSE

CheckFresh ==
    /\ \E u \in Timestamps, ttl \in Ttls :
          loaded' = [op |-> "is_fresh", file |-> Absent, raised |-> FALSE, exc |-> "",
                     data |-> IsRateCacheFresh(u, ttl, now),
                     updated_at |-> u, ttl |-> ttl, at |-> now]
    /\ UNCHANGED <<storeVars, schedVars, acct>>

\* Time passes: a second, or most of the default time to live.
Elapse(d) ==
    /\ now + d <= MaxNow
    /\ now' = now + d
    /\ UNCHANGED <<files, pc, sel, phase, results, pending, rates, tmp, cycles, hlog, cyc, others>>

FreshNext ==
    \/ CheckFresh
    \/ \E d \in {1, CACHE_TTL_SECONDS - 1} : Elapse(d)

SpecFresh == Init /\ [][FreshNext]_vars

(***************************************************************************)
(* The read path on any state of the two files: the show-rates command     *)
(* (load_current_rates) and the history load.                              *)
(***************************************************************************)
SomeQuote == Quote(Float(1), 0, "CoinGecko")

RatesDocs ==
    { EmptyMap,
      [pairs |-> EmptyMap],
      [last_refresh |-> 0],
      [pairs |-> EmptyMap, last_refresh |-> 0],
      [pairs |-> [k \in {PairKey("BTC", "USD")} |-> SomeQuote], last_refresh |-> 0],
      [BTC_USD |-> SomeQuote, source |-> "StubService", last_refresh |-> 0] }

JsonValues == {Arr(<<>>), [t |-> "num"], [t |-> "str"], [t |-> "null"]}

BrokenFiles == {[kind |-> k] : k \in {"absent", "unreadable", "garbage", "empty", "partial", "badutf8"}}

RatesFileStates == BrokenFiles \cup {JsonFile(v) : v \in JsonValues} \cup {JsonFile(Obj(d)) : d \in RatesDocs}

HistoryFileStates ==
    BrokenFiles \cup {JsonFile(v) : v \in JsonValues} \cup {JsonFile(Obj(EmptyMap))}
        \cup {JsonFile(Arr(<<HistoryRecord(PairKey("EUR", "USD"), Float(1), "ExchangeRate-API", 0)>>))}

LoadInit ==
    /\ files \in [{"rates", "history"} -> RatesFileStates \cup HistoryFileStates]
    /\ files["rates"] \in RatesFileStates
    /\ files["history"] \in HistoryFileStates
    /\ now \in 0..MaxClock
    /\ pc = [p \in Procs |-> "idle"]
    /\ sel = [p \in Procs |-> "none"]
    /\ phase = [p \in Procs |-> "none"]
    /\ results = [p \in Procs |-> NoResults]
    /\ pending = [p \in Procs |-> <<>>]
    /\ rates = [p \in Procs |-> EmptyMap]
    /\ tmp = [p \in Procs |-> NoTmp]
    /\ cycles = 0
    /\ hlog = <<>>
    /\ cyc = [p \in Procs |-> NoCyc]
    /\ thread = "none"
    /\ stopEvent = FALSE
    /\ lpc = [t \in Threads |-> "none"]
    /\ mpc = "idle"
    /\ sched = NoSched
    /\ loaded = NotLoaded
    /\ acct = NoAcct

\* The show-rates command: storage.load_current_rates().
ShowRates ==
    /\ mpc = "idle"
    /\ loaded' = [op |-> "rates", file |-> files["rates"]]
                    @@ LoadCurrentRates(files["rates"], now)
    /\ UNCHANGED <<storeVars, schedVars, acct>>

\* _load_history(), as append_to_history calls it.
ReadHistory ==
    /\ mpc = "idle"
    /\ loaded' = [op |-> "history", file |-> files["history"]]
                    @@ LoadHistory(files["history"])
    /\ UNCHANGED <<storeVars, schedVars, acct>>

LoadNext ==
    \/ ShowRates
    \/ ReadHistory
    \/ Tick

SpecLoad == LoadInit /\ [][LoadNext]_vars

(***************************************************************************)
(* Properties.                                                             *)

(***************************************************************************)
(* The store's operations called directly on any state of the snapshot     *)
(* file, and the consumer of the snapshot: DatabaseManager                 *)
(* (infra/database.py) with get_exchange_rate (core/utils.py), as the      *)
(* get-rate, buy and sell use cases call them.                             *)
(***************************************************************************)
RECURSIVE Text(_)
\* The string the tokens spell, as f"{from_code}_{to_code}" builds it.
Text(toks) == IF toks = <<>> THEN "" ELSE Head(toks) \o Text(Tail(toks))

Reciprocal(q) == [n |-> q.d, d |-> q.n]

\* _get_default_rates(), for the currencies of the model.
DefaultStubRates(t) ==
    [EUR_USD |-> [rate |-> [n |-> 10786, d |-> 10000], updated_at |-> t],
     BTC_USD |-> [rate |-> [n |-> 5933721, d |-> 100], updated_at |-> t],
     source |-> "StubService",
     last_refresh |-> t]

\* stub_rates of get_exchange_rate, for the currencies of the model.
StubRates ==
    [USD_EUR |-> [n |-> 927, d |-> 1000],
     EUR_USD |-> [n |-> 10786, d |-> 10000],
     USD_BTC |-> [n |-> 1685, d |-> 100000000],
     BTC_USD |-> [n |-> 5933721, d |-> 100]]

LoadJson(file, default) ==
    CASE file.kind = "absent" -> Returned(default)
      [] file.kind \in {"unreadable", "garbage", "empty", "partial"} -> Returned(default)
      [] file.kind = "badutf8" -> Raises("UnicodeDecodeError")
      [] file.kind = "json" -> Returned(file.val)

GetExchangeRates(file, t) == LoadJson(file, Obj(DefaultStubRates(t)))

GetExchangeRate(from_code, to_code, rates_cache) ==
    LET from == Upper(from_code)
        to == Upper(to_code)
        pair == Text(PairKey(from, to))
        reverse_pair == Text(PairKey(to, from))
    IN IF from = to THEN Returned(Float(1))
       ELSE CASE rates_cache.t = "null" ->
                   IF pair \in DOMAIN StubRates THEN Returned(StubRates[pair])
                   ELSE IF reverse_pair \in DOMAIN StubRates
                        THEN Returned(Reciprocal(StubRates[reverse_pair]))
                        ELSE Raises("ValueError")
              [] rates_cache.t = "obj" ->
                   LET d == rates_cache.doc
                   IN IF pair \in DOMAIN d /\ "rate" \in DOMAIN d[pair]
                      THEN Returned(d[pair].rate)
                      ELSE IF reverse_pair \in DOMAIN d /\ "rate" \in DOMAIN d[reverse_pair]
                           THEN Returned(Reciprocal(d[reverse_pair].rate))
                           ELSE Raises("ValueError")
              [] rates_cache.t = "num" -> Raises("TypeError")
              [] OTHER -> Raises("ValueError")

\* The get-rate use case: db.get_exchange_rates(), then get_exchange_rate.
GetRate(from_code, to_code) ==
    /\ mpc = "idle"
    /\ LET cache == GetExchangeRates(files["rates"], now)
       IN loaded' = [op |-> "get_rate", file |-> files["rates"],
                     from |-> from_code, to |-> to_code]
                      @@ (IF cache.raised THEN cache
                          ELSE GetExchangeRate(from_code, to_code, cache.data))
    /\ UNCHANGED <<storeVars, schedVars, acct>>

SaveInputs ==
    UNION {[S -> {Float(q) : q \in Prices}] :
              S \in SUBSET {PairKey("BTC", "USD"), PairKey("EUR", "USD")}}

\* save_current_rates(rts, source) called on its own, from its load to its os.replace.
SaveCall(rts, source) ==
    /\ mpc = "idle"
    /\ cycles < MaxCycles
    /\ cycles' = cycles + 1
    /\ LET current == LoadCurrentRates(files["rates"], now)
           t == [st |-> "none", path |-> "rates",
                 data |-> JsonFile(Obj(MergeRates(current.data, rts, source, now))),
                 old |-> files["rates"], rec |-> NoRecord]
           after == IF current.raised THEN files
                    ELSE Replace(TmpWrite(TmpCreate(files, t), t), t)
       IN /\ files' = after
          /\ loaded' = [op |-> "save", file |-> files["rates"], after |-> after["rates"],
                        rts |-> rts, source |-> source, at |-> now] @@ current
    /\ UNCHANGED <<now, pc, sel, phase, results, pending, rates, tmp, hlog, cyc, schedVars, acct>>

PairInputs == {PairKey("BTC", "USD"), <<"BTCUSD">>, <<>>}

\* append_to_history(pair, rate, source) called on its own.
AppendCall(pair, rate, source) ==
    /\ mpc = "idle"
    /\ cycles < MaxCycles
    /\ cycles' = cycles + 1
    /\ LET h == LoadHistory(files["history"])
           outcome == IF ~ValidPair(pair) THEN Raises("ValueError") ELSE h
           record == HistoryRecord(pair, rate, source, now)
           t == [st |-> "none", path |-> "history",
                 data |-> JsonFile(Arr(AppendRecord(h.data, record))),
                 old |-> files["history"], rec |-> record]
           after == IF outcome.raised THEN files
                    ELSE Replace(TmpWrite(TmpCreate(files, t), t), t)
       IN /\ files' = after
          /\ hlog' = IF outcome.raised THEN hlog ELSE Append(hlog, record)
          /\ loaded' = [op |-> "append", file |-> files["history"],
                        after |-> after["history"], pair |-> pair,
                        raised |-> outcome.raised, exc |-> outcome.exc, data |-> EmptyMap]
    /\ UNCHANGED <<now, pc, sel, phase, results, pending, rates, tmp, cyc, schedVars, acct>>

StoreInit ==
    /\ LoadInit
    /\ files["history"] \in HistoryFileStates

StoreNext ==
    \/ \E rts \in SaveInputs : SaveCall(rts, "CoinGecko")
    \/ \E pair \in PairInputs : AppendCall(pair, Float(1), "CoinGecko")
    \/ \E from_code \in {"BTC", "EUR", "USD"} : GetRate(from_code, "USD")
    \/ GetRate("USD", "BTC")

SpecStore == StoreInit /\ [][StoreNext]_vars

(***************************************************************************)
(***************************************************************************)
(* Wallets and trades (core/models.py, core/usecases.py).  A balance and   *)
(* an amount are rationals n/d with d > 0, kept in lowest terms.  A user   *)
(* is logged in; acct.mem is the balance of each wallet of                 *)
(* UseCases._current_portfolio, acct.disk the balances of the user's entry *)
(* in portfolios.json, acct.last the last call and how it ended.           *)
(***************************************************************************)
MaxAmount == 3
MaxBalance == 10

RECURSIVE Gcd(_, _)
Gcd(a, b) == IF b = 0 THEN a ELSE Gcd(b, a % b)

Abs(x) == IF x < 0 THEN -x ELSE x

Norm(q) == LET g == Gcd(Abs(q.n), q.d) IN [n |-> q.n \div g, d |-> q.d \div g]

Plus(a, b) ==
    LET l == (a.d * b.d) \div Gcd(a.d, b.d)
    IN Norm([n |-> a.n * (l \div a.d) + b.n * (l \div b.d), d |-> l])

Minus(a, b) == Plus(a, [n |-> -b.n, d |-> b.d])

Times(a, b) == Norm([n |-> a.n * b.n, d |-> a.d * b.d])

Less(a, b) == a.n * b.d < b.n * a.d

\* A withdraw without its test of the balance.
WalletWithdrawUnchecked(balance, amount) ==
    IF ~Less(Float(0), amount) THEN Raises("ValueError")
    ELSE Returned(Minus(balance, amount))

\* Wallet.deposit(amount) on a wallet with this balance: the new balance, or the error.
WalletDeposit(balance, amount) ==
    IF ~Less(Float(0), amount) THEN Raises("ValueError")
    ELSE Returned(Plus(balance, amount))

\* Wallet.withdraw(amount)
WalletWithdraw(balance, amount) ==
    IF ~Less(Float(0), amount) THEN Raises("ValueError")
    ELSE IF Less(balance, amount) THEN Raises("InsufficientFundsError")
    ELSE Returned(Minus(balance, amount))

\* _CURRENCY_REGISTRY, for the currencies of the model.
CurrencyRegistry == {"USD", "EUR", "GBP", "BTC"}

\* A call that raised exc, leaving the portfolio in memory as mem.
TradeFailed(exc, mem) == [raised |-> TRUE, exc |-> exc, mem |-> mem, saved |-> FALSE]

\* A call that returned after db.save_json("portfolios.json", ...) wrote mem.
TradeDone(mem) == [raised |-> FALSE, exc |-> "", mem |-> mem, saved |-> TRUE]

\* Portfolio.add_currency(code)
AddCurrency(mem, code) == IF code \in DOMAIN mem THEN mem ELSE Put(mem, code, Float(0))

\* UseCases.sell(currency_code, amount) with the portfolio mem in memory and the rates
\* file `file`; writable says whether portfolios.json can be opened for writing.
SellOutcome(mem, currency_code, amount, file, t, writable) ==
    LET code == Upper(currency_code)
    IN IF code \notin CurrencyRegistry THEN TradeFailed("ValidationError", mem)
       ELSE IF amount <= 0 THEN TradeFailed("ValidationError", mem)
       ELSE IF code \notin DOMAIN mem THEN TradeFailed("WalletNotFoundError", mem)
       ELSE LET w == WalletWithdraw(mem[code], Float(amount))
            IN IF w.raised THEN TradeFailed(w.exc, mem)
               ELSE LET m1 == [mem EXCEPT ![code] = w.data]
                        cache == GetExchangeRates(file, t)
                        rate == IF cache.raised THEN cache
                                ELSE GetExchangeRate(code, "USD", cache.data)
                    IN IF rate.raised THEN TradeFailed(rate.exc, m1)
                       ELSE IF code = "USD"
                            THEN (IF writable THEN TradeDone(m1)
                                  ELSE TradeFailed("OSError", m1))
                       ELSE LET m2 == AddCurrency(m1, "USD")
                                usd == WalletDeposit(m2["USD"],
                                                     Times(Float(amount), rate.data))
                            IN IF usd.raised THEN TradeFailed(usd.exc, m2)
                               ELSE LET m3 == [m2 EXCEPT !["USD"] = usd.data]
                                    IN IF writable THEN TradeDone(m3)
                                       ELSE TradeFailed("OSError", m3)

\* UseCases.buy(currency_code, amount)
BuyOutcome(mem, currency_code, amount, file, t, writable) ==
    LET code == Upper(currency_code)
    IN IF code \notin CurrencyRegistry THEN TradeFailed("ValidationError", mem)
       ELSE IF amount <= 0 THEN TradeFailed("ValidationError", mem)
       ELSE LET cache == GetExchangeRates(file, t)
                rate == IF cache.raised THEN cache
                        ELSE GetExchangeRate(code, "USD", cache.data)
            IN IF rate.raised THEN TradeFailed(rate.exc, mem)
               ELSE IF code \notin DOMAIN mem THEN TradeFailed("WalletNotFoundError", mem)
               ELSE LET w == WalletDeposit(mem[code], Float(amount))
                    IN IF w.raised THEN TradeFailed(w.exc, mem)
                       ELSE LET m1 == [mem EXCEPT ![code] = w.data]
                            IN IF writable THEN TradeDone(m1)
                               ELSE TradeFailed("OSError", m1)

\* The call has ended with outcome o: what is in memory, what is on disk, the record.
Traded(op, currency_code, amount, o) ==
    /\ acct # NoAcct
    /\ cycles < MaxCycles
    /\ cycles' = cycles + 1
    /\ acct' = [mem |-> o.mem,
                disk |-> IF o.saved THEN o.mem ELSE acct.disk,
                last |-> [op |-> op, code |-> currency_code, amount |-> amount,
                          raised |-> o.raised, exc |-> o.exc,
                          mem0 |-> acct.mem, disk0 |-> acct.disk]]
    /\ UNCHANGED <<files, now, pc, sel, phase, results, pending, rates, tmp, hlog, cyc,
                   thread, stopEvent, lpc, mpc, sched, loaded>>

TradeCodes == {"BTC", "USD", "EUR", "XXX"}

TradeAmounts == 0..MaxAmount

Sell(currency_code, amount) ==
    \E writable \in BOOLEAN :
        Traded("sell", currency_code, amount,
               SellOutcome(acct.mem, currency_code, amount, files["rates"], now, writable))

Buy(currency_code, amount) ==
    \E writable \in BOOLEAN :
        Traded("buy", currency_code, amount,
               BuyOutcome(acct.mem, currency_code, amount, files["rates"], now, writable))

\* The rates file the trades read: missing, not UTF-8, in the layout of
\* _get_default_rates, or the snapshot save_current_rates writes.
TradeRatesFiles ==
    {Absent, [kind |-> "badutf8"],
     JsonFile(Obj([BTC_USD |-> SomeQuote, source |-> "StubService", last_refresh |-> 0])),
     JsonFile(Obj(MergeRates(DefaultRates(0),
                             [k \in {PairKey("BTC", "USD")} |-> Float(1)], "CoinGecko", 0)))}

\* The wallets of the portfolio that login() read from portfolios.json.
Portfolios ==
    {[c \in {"BTC"} |-> Float(1)],
     [c \in {"BTC", "USD"} |-> Float(1)],
     [c \in {"USD"} |-> Float(2)]}

TradeInit ==
    /\ LoadInit
    /\ now = 0
    /\ files["history"] = Absent
    /\ files["rates"] \in TradeRatesFiles

TradeLogin ==
    /\ acct = NoAcct
    /\ \E w \in Portfolios : acct' = [mem |-> w, disk |-> w, last |-> [op |-> "login"]]
    /\ UNCHANGED <<storeVars, thread, stopEvent, lpc, mpc, sched, loaded>>

TradeNext ==
    \/ TradeLogin
    \/ \E c \in TradeCodes, a \in TradeAmounts : Sell(c, a)
    \/ \E c \in TradeCodes, a \in TradeAmounts : Buy(c, a)

SpecTrade == TradeInit /\ [][TradeNext]_vars

(***************************************************************************)
(* One Wallet under any sequence of deposit and withdraw calls.  The       *)
(* wallet is acct.mem["BTC"]; the balance setter lets it start at any      *)
(* balance that is not negative.                                           *)
(***************************************************************************)
WalletAmounts == (-1)..MaxAmount

WalletCalled(op, amount, o) ==
    /\ acct' = [mem |-> IF o.raised THEN acct.mem ELSE [c \in {"BTC"} |-> o.data],
                disk |-> acct.disk,
                last |-> [op |-> op, amount |-> amount, raised |-> o.raised,
                          exc |-> o.exc, mem0 |-> acct.mem]]
    /\ UNCHANGED <<storeVars, thread, stopEvent, lpc, mpc, sched, loaded>>

Deposit(amount) ==
    /\ "BTC" \in DOMAIN acct.mem
    /\ acct.mem["BTC"].n + amount <= MaxBalance
    /\ WalletCalled("deposit", amount, WalletDeposit(acct.mem["BTC"], Float(amount)))

Withdraw(amount) ==
    /\ "BTC" \in DOMAIN acct.mem
    /\ WalletCalled("withdraw", amount, WalletWithdraw(acct.mem["BTC"], Float(amount)))

\* Wallet("BTC", balance): the balance setter refuses a negative balance.
NewWallet(balance) ==
    /\ acct = NoAcct
    /\ WalletCalled("new", balance,
                    IF balance < 0 THEN Raises("ValueError") ELSE Returned(Float(balance)))

WalletNext ==
    \/ \E b \in (-1)..MaxBalance : NewWallet(b)
    \/ \E a \in WalletAmounts : Deposit(a)
    \/ \E a \in WalletAmounts : Withdraw(a)

SpecWallet == Init /\ [][WalletNext]_vars

PairsOf(file) ==
    IF file.kind = "json" /\ file.val.t = "obj" /\ "pairs" \in DOMAIN file.val.doc
    THEN file.val.doc.pairs ELSE EmptyMap

HistoryItems ==
    IF files["history"].kind = "json" /\ files["history"].val.t = "arr"
    THEN files["history"].val.items ELSE <<>>

RecordsFor(history, from, to) ==
    SelectSeq(history, LAMBDA r : r.from_currency = <<from>> /\ r.to_currency = <<to>>)

Complete(file) == file.kind \in {"absent", "json"}

\* A cycle with no source selected in which the crypto fetch raised, the forex fetch
\* returned the non-empty mapping cyc[p].forexRates, and no storage fault occurred.
C1Case(p) ==
    /\ pc[p] \in {"done", "raised"}
    /\ sel[p] = "none"
    /\ cyc[p].crypto = "raised"
    /\ cyc[p].forex = "ok"
    /\ cyc[p].forexRates # EmptyMap
    /\ ~cyc[p].fault

\* C1: partial failure isolation.  When a cycle of run_update() with no source selected
\* ends after the crypto fetch raised and the forex fetch returned a non-empty mapping F
\* (and the store did not fail), run_update has returned, success is False, errors has
\* exactly one entry, updated_pairs is F, the snapshot holds every pair of F with its new
\* rate, and every pair the snapshot held before the cycle and F does not name keeps its
\* rate, updated_at and source.
C1_PartialFailureIsolation ==
    \A p \in Procs :
        C1Case(p) =>
            LET F == cyc[p].forexRates
                before == PairsOf(cyc[p].snap0)
                after == PairsOf(files["rates"])
            IN /\ pc[p] = "done"
               /\ results[p].success = FALSE
               /\ Len(results[p].errors) = 1
               /\ results[p].updated_pairs = F
               /\ \A k \in DOMAIN F : k \in DOMAIN after /\ after[k].rate = F[k]
               /\ \A k \in DOMAIN before \ DOMAIN F :
                      k \in DOMAIN after /\ after[k] = before[k]

\* The case of C1 with a crypto pair of an earlier cycle in the snapshot.
C1_Witness ==
    /\ C1Case("fg")
    /\ pc["fg"] = "done"
    /\ PairKey("BTC", "USD") \in DOMAIN PairsOf(cyc["fg"].snap0)
    /\ PairsOf(cyc["fg"].snap0)[PairKey("BTC", "USD")].updated_at < now

\* C2: atomic write under interruption.  Whatever step of _atomic_write a writer of the
\* snapshot file has reached, and also when it was killed or failed there, the file
\* under the snapshot's name is a complete one (or not there yet): until os.replace it
\* is the file the writer read, after os.replace it is exactly what the writer wrote.
C2_AtomicWrite ==
    /\ Complete(files["rates"])
    /\ \A p \in Procs :
          tmp[p].path = "rates" =>
              /\ tmp[p].st \in {"none", "created", "written", "failed"}
                    => files["rates"] = tmp[p].old
              /\ tmp[p].st = "renamed" => files["rates"] = tmp[p].data

\* The writer was killed between the write of the temporary file and os.replace, with a
\* snapshot persisted before.
C2_Witness ==
    /\ pc["fg"] = "crashed"
    /\ cyc["fg"].at = "aw_rename"
    /\ tmp["fg"].path = "rates"
    /\ tmp["fg"].st = "written"
    /\ tmp["fg"].old.kind = "json"
    /\ tmp["fg"].data # tmp["fg"].old

\* C6: with one thread of control, the records of a pair in the history file are
\* exactly the records of that pair whose appends completed, in the order of the
\* fetches (which is the order the appends completed in).
C6_HistoryMatchesFetches ==
    \A from \in {"BTC", "EUR"} :
        RecordsFor(HistoryItems, from, "USD") = RecordsFor(hlog, from, "USD")

\* Two fetches of EUR_USD at different times with different rates, both appended.
C6_Witness ==
    LET eur == RecordsFor(HistoryItems, "EUR", "USD")
    IN /\ Len(eur) >= 2
       /\ eur[1].rate # eur[2].rate
       /\ eur[1].timestamp < eur[2].timestamp
       /\ Len(HistoryItems) > Len(eur)

\* C3: load_current_rates never fails the caller.  For every state of the snapshot
\* file the call raises nothing and returns a snapshot with a 'pairs' mapping and a
\* 'last_refresh'; for a file that is absent, unreadable or not parsable the pairs
\* mapping is empty.
C3_LoadNeverFails ==
    loaded.op = "rates" =>
        /\ ~loaded.raised
        /\ "pairs" \in DOMAIN loaded.data
        /\ "last_refresh" \in DOMAIN loaded.data
        /\ (loaded.file.kind \in {"absent", "unreadable", "garbage", "empty", "partial", "badutf8"}
               => loaded.data["pairs"] = EmptyMap)

\* C4: no lost update on the snapshot.  When the update-rates command and the
\* scheduler's loop have both completed a run_update(), the snapshot contains the pairs
\* merged by both.
C4_NoLostUpdate ==
    (pc["fg"] = "done" /\ pc["t1"] = "done") =>
        \A k \in DOMAIN results["fg"].updated_pairs \cup DOMAIN results["t1"].updated_pairs :
            k \in DOMAIN PairsOf(files["rates"])

\* C5: the history is append-only and strictly growing under every interleaving.  A
\* step keeps every record of the history file at its position, and a completed
\* append_to_history makes the file one record longer.
C5_HistoryAppendOnly ==
    [][/\ Len(HistoryItems') >= Len(HistoryItems)
       /\ SubSeq(HistoryItems', 1, Len(HistoryItems)) = HistoryItems
       /\ (hlog' # hlog => Len(HistoryItems') = Len(HistoryItems) + 1)]_vars

AliveThreads == {t \in Threads : Alive(t)}

\* C7: idempotent start.  After any sequence of start() and stop() calls, among them
\* start() calls made while the loop is running, at most one scheduler loop is alive,
\* and it is the thread the scheduler holds.
C7_AtMostOneLoop ==
    /\ Cardinality(AliveThreads) <= 1
    /\ AliveThreads \subseteq {thread}

\* start() was called while the loop was running a cycle.
C7_Witness ==
    /\ sched.last = "start_noop"
    /\ lpc[thread] = "cycle"
    /\ ~stopEvent

C9_StopReturns == (mpc = "join") ~> (mpc = "idle")

\* stop() has returned although the loop has not ended.
C9_Witness ==
    /\ mpc = "idle"
    /\ sched.last = "stop"
    /\ ~sched.confirmed
    /\ Alive(thread)
    /\ pc[thread] \in {"aw_create", "aw_write", "aw_rename"}

\* C10: the loop survives a failing cycle.  When run_update() has raised inside the
\* loop, the loop goes on: another run_update() begins, unless stop is requested (or the
\* model's bound on the number of cycles is reached).
C10_LoopSurvivesFailure ==
    \A t \in Threads :
        (lpc[t] = "cycle" /\ pc[t] = "raised")
            ~> (stopEvent \/ cycles >= MaxCycles \/ (lpc[t] = "cycle" /\ pc[t] = "fetch"))

\* run_update() has raised inside the loop, with no stop requested and cycles left.
C10_Witness ==
    /\ lpc["t1"] = "cycle"
    /\ pc["t1"] = "raised"
    /\ ~stopEvent
    /\ cycles < MaxCycles

\* C11: in every UpdateResult, the one run_update() returns and the one it is still
\* building, success is true if and only if errors is empty, whatever updated_pairs
\* holds.
C11_SuccessIffNoErrors ==
    \A p \in Procs : results[p].success <=> (results[p].errors = <<>>)

\* A partial success has been returned: success is False and pairs were updated.
C11_Witness ==
    /\ pc["fg"] = "done"
    /\ ~results["fg"].success
    /\ results["fg"].updated_pairs # EmptyMap
    /\ PairsOf(files["rates"]) # EmptyMap

FailureKinds == {"timeout", "connection", "http_status", "auth", "rate_limited", "unknown"}

\* The adapters whose fetch has raised in p's cycle, in the order run_update calls them.
FailedAdapters(p) ==
    (IF cyc[p].crypto = "raised" THEN <<"CoinGecko">> ELSE <<>>)
        \o (IF cyc[p].forex = "raised" THEN <<"ExchangeRate-API">> ELSE <<>>)

\* C12: a fetch failure never leaves run_update().  Whatever the adapters' fetches do
\* (timeout, connection failure, HTTP status, auth failure, rate limit, unrecognized),
\* run_update does not raise, and errors holds exactly one entry per adapter whose
\* fetch failed, the crypto adapter's before the forex adapter's.
C12_FetchFailuresRecorded ==
    \A p \in Procs :
        /\ pc[p] # "raised"
        /\ [i \in DOMAIN results[p].errors |-> results[p].errors[i][1]] = FailedAdapters(p)
        /\ \A i \in DOMAIN results[p].errors : results[p].errors[i][3] \in FailureKinds

\* run_update() has returned after both adapters failed, each in its own way.
C12_Witness ==
    /\ pc["fg"] = "done"
    /\ sel["fg"] = "none"
    /\ results["fg"].errors = << <<"CoinGecko", ":", "rate_limited">>,
                                 <<"ExchangeRate-API", ":", "auth">> >>
    /\ results["fg"].updated_pairs = EmptyMap
    /\ ~results["fg"].success

\* The records whose append completed since p's cycle began.
NewRecords(p) == SubSeq(hlog, cyc[p].h0 + 1, Len(hlog))

\* The pairs whose Quote in the snapshot is not the one the snapshot held when p's
\* cycle began.
ChangedPairs(p) ==
    {k \in DOMAIN PairsOf(files["rates"]) :
        \/ k \notin DOMAIN PairsOf(cyc[p].snap0)
        \/ PairsOf(files["rates"])[k] # PairsOf(cyc[p].snap0)[k]}

\* C13: history before snapshot.  At every point of a run_update() cycle (also one cut
\* short by a crash or by a storage fault), each rate the snapshot shows that it did
\* not show when the cycle began has a HistoryRecord with that pair and rate that was
\* appended earlier in the same cycle and is in the history file.
C13_HistoryBeforeSnapshot ==
    \A p \in Procs :
        pc[p] # "idle" =>
            \A k \in ChangedPairs(p) :
                \E i \in DOMAIN NewRecords(p) :
                    LET r == NewRecords(p)[i]
                    IN /\ r.from_currency \o <<"_">> \o r.to_currency = k
                       /\ r.rate = PairsOf(files["rates"])[k].rate
                       /\ r.timestamp <= PairsOf(files["rates"])[k].updated_at
                       /\ \E j \in DOMAIN HistoryItems : HistoryItems[j] = r

\* A cycle has made both adapters' rates visible in the snapshot.
C13_Witness ==
    /\ pc["fg"] = "done"
    /\ cyc["fg"].writes = 1
    /\ Len(NewRecords("fg")) = 2
    /\ Cardinality(ChangedPairs("fg")) = 2
    /\ cyc["fg"].h0 > 0

LastRefreshOf(file) ==
    IF file.kind = "json" /\ file.val.t = "obj" /\ "last_refresh" \in DOMAIN file.val.doc
    THEN file.val.doc.last_refresh ELSE 0

\* p's run_update() has returned with no error and no storage fault.
CleanRun(p) ==
    /\ pc[p] = "done"
    /\ results[p].errors = <<>>
    /\ ~cyc[p].fault

\* p's run_update() fetched exactly the pairs and rates the snapshot held when the call
\* began: the call repeats the one before it.
RepeatedRun(p) ==
    /\ CleanRun(p)
    /\ results[p].updated_pairs # EmptyMap
    /\ DOMAIN PairsOf(cyc[p].snap0) = DOMAIN results[p].updated_pairs
    /\ \A k \in DOMAIN results[p].updated_pairs :
           PairsOf(cyc[p].snap0)[k].rate = results[p].updated_pairs[k]

\* C14: idempotent merge.  A run_update() that returns the pairs and rates of the call
\* before it leaves the snapshot's set of pairs as it was, one Quote per pair with the
\* same rate, sets updated_at of those pairs and last_refresh to the time of the second
\* save, which is not earlier than the first; and every call that ends without error
\* makes the history exactly one record longer per fetched pair.
C14_IdempotentMerge ==
    \A p \in Procs :
        LET U == results[p].updated_pairs
            before == PairsOf(cyc[p].snap0)
            after == PairsOf(files["rates"])
        IN /\ RepeatedRun(p) =>
                /\ DOMAIN after = DOMAIN before
                /\ \A k \in DOMAIN after :
                       /\ after[k].rate = before[k].rate
                       /\ after[k].updated_at = LastRefreshOf(files["rates"])
                       /\ after[k].updated_at >= results[p].timestamp
                       /\ after[k].updated_at >= before[k].updated_at
                /\ LastRefreshOf(files["rates"]) >= LastRefreshOf(cyc[p].snap0)
                /\ LastRefreshOf(files["rates"]) <= now
           /\ CleanRun(p) =>
                /\ Len(NewRecords(p)) = Cardinality(DOMAIN U)
                /\ Len(HistoryItems) = cyc[p].h0 + Cardinality(DOMAIN U)
                /\ \A k \in DOMAIN U :
                       Cardinality({i \in DOMAIN NewRecords(p) :
                           NewRecords(p)[i].from_currency \o <<"_">>
                               \o NewRecords(p)[i].to_currency = k}) = 1

\* The second of two calls with the same two pairs and rates has returned, later than
\* the first.
C14_Witness ==
    /\ RepeatedRun("fg")
    /\ Cardinality(DOMAIN results["fg"].updated_pairs) = 2
    /\ \A k \in DOMAIN PairsOf(cyc["fg"].snap0) :
           PairsOf(cyc["fg"].snap0)[k].updated_at < PairsOf(files["rates"])[k].updated_at
    /\ Len(HistoryItems) = 4

\* C15: freshness boundary.  For a record with a timestamp, is_rate_cache_fresh is true
\* if and only if the age now - updated_at is less than ttl_seconds; with the time to
\* live of 300 s it is true at age 299 s and false at ages 300 s and 301 s; and a record
\* found not fresh is not fresh at any later time.
C15_FreshnessBoundary ==
    (loaded.op = "is_fresh" /\ loaded.updated_at.form \in {"offset", "zulu"}) =>
        LET age == loaded.at - loaded.updated_at.secs
        IN /\ loaded.data <=> (age < loaded.ttl)
           /\ (loaded.ttl = CACHE_TTL_SECONDS /\ age = CACHE_TTL_SECONDS - 1) => loaded.data
           /\ (loaded.ttl = CACHE_TTL_SECONDS /\ age = CACHE_TTL_SECONDS) => ~loaded.data
           /\ (loaded.ttl = CACHE_TTL_SECONDS /\ age = CACHE_TTL_SECONDS + 1) => ~loaded.data
           /\ ~loaded.data =>
                 \A t \in loaded.at..MaxNow :
                     ~IsRateCacheFresh(loaded.updated_at, loaded.ttl, t)

\* The record was tested at the exact expiry of the default time to live.
C15_Witness ==
    /\ loaded.op = "is_fresh"
    /\ loaded.updated_at = [form |-> "zulu", secs |-> 1]
    /\ loaded.ttl = CACHE_TTL_SECONDS
    /\ loaded.at - loaded.updated_at.secs = CACHE_TTL_SECONDS
    /\ ~loaded.data
    /\ now = loaded.at + 1

DocOf(file) ==
    IF file.kind = "json" /\ file.val.t = "obj" THEN file.val.doc ELSE EmptyMap

\* C16: the snapshot file that save_current_rates writes has each merged pair string as
\* a top-level key, and after pair FROM_TO has been merged with rate r the consumer
\* read path (get_exchange_rates, then get_exchange_rate(FROM, TO, rates)) returns r
\* instead of reporting the rate as unavailable.
C16_ConsumerReadsMergedRate ==
    /\ (loaded.op = "save" /\ ~loaded.raised) =>
           \A k \in DOMAIN loaded.rts :
               /\ Text(k) \in DOMAIN DocOf(loaded.after)
               /\ DocOf(loaded.after)[Text(k)].rate = loaded.rts[k]
    /\ (loaded.op = "get_rate"
            /\ PairKey(loaded.from, loaded.to) \in DOMAIN PairsOf(loaded.file)) =>
           /\ ~loaded.raised
           /\ loaded.data = PairsOf(loaded.file)[PairKey(loaded.from, loaded.to)].rate

\* C19: postcondition of save_current_rates(rts, source).  The file it leaves is the
\* snapshot read at the start of the call with the Quote of each given pair replaced
\* by {rate, updated_at = now, source}, the Quotes of the other pairs as they were,
\* last_refresh set to now and the snapshot-level source set to the given label.
C19_SavePostcondition ==
    (loaded.op = "save" /\ ~loaded.raised) =>
        LET before == loaded.data
            after == DocOf(loaded.after)
        IN /\ loaded.after.kind = "json"
           /\ "pairs" \in DOMAIN after
           /\ DOMAIN after.pairs = DOMAIN before.pairs \cup DOMAIN loaded.rts
           /\ \A k \in DOMAIN loaded.rts :
                  after.pairs[k] = Quote(loaded.rts[k], loaded.at, loaded.source)
           /\ \A k \in DOMAIN before.pairs \ DOMAIN loaded.rts :
                  after.pairs[k] = before.pairs[k]
           /\ after.last_refresh = loaded.at
           /\ "source" \in DOMAIN after
           /\ after.source = loaded.source

\* C20: append_to_history with a pair key that is empty or has no "_" raises
\* ValidationError to its caller and leaves the history file as it was.
C20_BadPairValidationError ==
    (loaded.op = "append" /\ ~ValidPair(loaded.pair)) =>
        /\ loaded.raised
        /\ loaded.exc = "ValidationError"
        /\ loaded.after = loaded.file

\* The pairs the adapters returned in p's cycle.
FetchedPairs(p) == DOMAIN cyc[p].cryptoRates \cup DOMAIN cyc[p].forexRates

\* C17: the snapshot merge is skipped if and only if no pair was fetched.  A cycle
\* writes the snapshot file at most once and leaves it untouched until that write; a
\* run_update() that returns (the store not having failed) has not written the file,
\* which is as it was when the cycle began, when every selected adapter failed or
\* returned an empty mapping, and has written it exactly once otherwise.
C17_MergeSkippedIffNoPairs ==
    \A p \in Procs :
        /\ cyc[p].writes <= 1
        /\ (pc[p] # "idle" /\ cyc[p].writes = 0) => files["rates"] = cyc[p].snap0
        /\ (pc[p] = "done" /\ ~cyc[p].fault) =>
               cyc[p].writes = (IF FetchedPairs(p) = {} THEN 0 ELSE 1)

\* run_update() has returned without touching an existing snapshot: the crypto adapter
\* returned an empty mapping and the forex adapter failed.
C17_Witness ==
    /\ pc["fg"] = "done"
    /\ sel["fg"] = "none"
    /\ cyc["fg"].crypto = "ok"
    /\ cyc["fg"].forex = "raised"
    /\ FetchedPairs("fg") = {}
    /\ cyc["fg"].writes = 0
    /\ PairsOf(files["rates"]) # EmptyMap
    /\ LastRefreshOf(files["rates"]) < now

\* The label the claim gives for the adapters that failed in p's cycle.
ExpectedLabel(p) ==
    LET c == cyc[p].crypto = "raised"
        f == cyc[p].forex = "raised"
    IN IF ~c /\ ~f THEN "CoinGecko+ExchangeRate-API"
       ELSE IF ~c THEN "CoinGecko"
       ELSE IF ~f THEN "ExchangeRate-API"
       ELSE "ParserService"

\* C18: the source label.  When run_update() has merged pairs into the snapshot (the
\* store not having failed), the source of each merged Quote is the combined label
\* when no adapter failed, "CoinGecko" when only the forex adapter failed,
\* "ExchangeRate-API" when only the crypto adapter failed, and "ParserService" only
\* when more than one adapter failed.
C18_SourceLabel ==
    \A p \in Procs :
        (pc[p] = "done" /\ cyc[p].writes = 1 /\ ~cyc[p].fault) =>
            \A k \in DOMAIN results[p].updated_pairs :
                /\ k \in DOMAIN PairsOf(files["rates"])
                /\ PairsOf(files["rates"])[k].source = ExpectedLabel(p)

\* The forex adapter failed and the crypto adapter's pair was merged under its name.
C18_Witness ==
    /\ pc["fg"] = "done"
    /\ sel["fg"] = "none"
    /\ cyc["fg"].writes = 1
    /\ cyc["fg"].crypto = "ok"
    /\ cyc["fg"].forex = "raised"
    /\ PairsOf(files["rates"])[PairKey("BTC", "USD")].source = "CoinGecko"

\* The environment of loaded.env holds no usable forex credential: the name is not
\* set, or it is set to the empty string or to the placeholder.
NoCredential(env) ==
    \/ "EXCHANGERATE_API_KEY" \notin DOMAIN env
    \/ env["EXCHANGERATE_API_KEY"] \in {"", "YOUR_API_KEY_HERE"}

\* C21: when the forex credential is absent from the environment or is the
\* placeholder, fetch_rates() of the forex adapter raises its fetch error and no
\* network request was made.
C21_NoCredentialNoRequest ==
    (loaded.op = "forex_fetch" /\ NoCredential(loaded.env))
        => (~loaded.ok /\ loaded.calls = 0)

\* The rational q is greater than zero.
Positive(q) == q.n > 0 /\ q.d > 0

\* C22: every quote of the snapshot and every record of the history has a rate
\* greater than zero, whatever the providers returned.
C22_RatesPositive ==
    /\ \A k \in DOMAIN PairsOf(files["rates"]) : Positive(PairsOf(files["rates"])[k].rate)
    /\ \A i \in DOMAIN HistoryItems : Positive(HistoryItems[i].rate)

\* C23: the records of the history file have pairwise distinct ids, also after two
\* appends for the same pair that read the same clock value.
C23_DistinctIds ==
    \A i, j \in DOMAIN HistoryItems :
        HistoryItems[i].id = HistoryItems[j].id => i = j

\* The pairs each adapter can return.
CryptoPairs == {PairKey(CRYPTO_ID_MAP[i][1], BASE_CURRENCY) : i \in DOMAIN CRYPTO_ID_MAP}

FiatPairs == {PairKey(c, BASE_CURRENCY) : c \in FiatCodes}

\* The adapter named `name` has taken no part in p's cycle: no fetch, none of its
\* `pairs` in updated_pairs, no record of its in the history, no entry in errors.
Untouched(p, name, calls, pairs) ==
    /\ calls = 0
    /\ DOMAIN results[p].updated_pairs \cap pairs = {}
    /\ \A i \in DOMAIN NewRecords(p) : NewRecords(p)[i].source # name
    /\ \A i \in DOMAIN results[p].errors : ~Contains(results[p].errors[i], name)

\* C24: run_update with a source given runs only that adapter, the other one being
\* left untouched; with no source given every adapter is invoked exactly once.
C24_OnlySelectedAdapter ==
    \A p \in Procs :
        pc[p] # "idle" =>
            /\ sel[p] = "coingecko" =>
                   /\ Untouched(p, "ExchangeRate-API", cyc[p].forexCalls, FiatPairs)
                   /\ phase[p] = "save" => cyc[p].cryptoCalls = 1
            /\ sel[p] = "exchangerate" =>
                   /\ Untouched(p, "CoinGecko", cyc[p].cryptoCalls, CryptoPairs)
                   /\ phase[p] = "save" => cyc[p].forexCalls = 1
            /\ sel[p] = "none" =>
                   /\ cyc[p].cryptoCalls <= 1 /\ cyc[p].forexCalls <= 1
                   /\ phase[p] = "save" => (cyc[p].cryptoCalls = 1 /\ cyc[p].forexCalls = 1)

C24_Witness ==
    /\ pc["fg"] = "done"
    /\ sel["fg"] = "coingecko"
    /\ cyc["fg"].cryptoCalls = 1
    /\ cyc["fg"].forexCalls = 0
    /\ DOMAIN results["fg"].updated_pairs = CryptoPairs
    /\ DOMAIN PairsOf(files["rates"]) = CryptoPairs

\* The file does not hold a JSON list: it is missing, cannot be opened or parsed,
\* or holds another JSON value.
NotAList(file) == ~(file.kind = "json" /\ file.val.t = "arr")

\* C25: the history load inside append_history never raises: over a history file
\* that is missing, unreadable, unparsable or not a list, the append of a valid
\* pair completes and leaves a history of exactly the one new record.
C25_HistoryLoadNeverRaises ==
    (loaded.op = "append" /\ ValidPair(loaded.pair)) =>
        /\ ~loaded.raised
        /\ NotAList(loaded.file) =>
               /\ loaded.after.kind = "json"
               /\ loaded.after.val = Arr(<<hlog[Len(hlog)]>>)

\* C26: the wait between cycles is interruptible.  Once the stop signal is given no
\* loop begins another cycle (one signalled in its wait or at its test leaves; one
\* signalled in a cycle leaves right after it), and every live loop eventually ends,
\* the cycle in flight terminating (or never let begin, when the bound on the number
\* of cycles is met).
C26_StopEndsLoop ==
    /\ [][\A t \in Threads :
             (stopEvent /\ lpc[t] # "enter") => lpc'[t] # "enter"]_vars
    /\ \A t \in Threads :
          (stopEvent /\ Alive(t))
              ~> (~Alive(t) \/ (lpc[t] = "enter" /\ cycles >= MaxCycles))

C26_Witness ==
    /\ stopEvent
    /\ thread = "t1"
    /\ lpc["t1"] = "dead"
    /\ cycles = 1
    /\ sched.last = "stop"
    /\ sched.confirmed

\* The forex response of p's cycle has a zero multiplier for a configured currency.
ZeroMultiplier(resp) ==
    /\ resp.kind = "ok"
    /\ resp.result = "success"
    /\ \E c \in FiatCodes \cap DOMAIN resp.conversion_rates : resp.conversion_rates[c] = 0

\* None of `pairs` has come out of p's cycle: none is in updated_pairs, the history
\* has no new record from the adapter `name`, the snapshot holds for each of them
\* what it held when the cycle began.
NoPairsFrom(p, name, pairs) ==
    /\ DOMAIN results[p].updated_pairs \cap pairs = {}
    /\ \A i \in DOMAIN NewRecords(p) : NewRecords(p)[i].source # name
    /\ \A k \in pairs :
          /\ k \in DOMAIN PairsOf(files["rates"]) <=> k \in DOMAIN PairsOf(cyc[p].snap0)
          /\ k \in DOMAIN PairsOf(files["rates"]) =>
                 PairsOf(files["rates"])[k] = PairsOf(cyc[p].snap0)[k]

\* C27: a failing adapter invocation yields no pairs.  A zero multiplier for one
\* configured currency makes the forex fetch raise, whatever was converted before
\* it, and no pair of an adapter whose fetch raised reaches updated_pairs, the
\* history or the snapshot.
C27_FailedFetchYieldsNoPairs ==
    \A p \in Procs :
        pc[p] # "idle" =>
            /\ ZeroMultiplier(cyc[p].forexResp) => cyc[p].forex = "raised"
            /\ cyc[p].forex = "raised" => NoPairsFrom(p, "ExchangeRate-API", FiatPairs)
            /\ cyc[p].crypto = "raised" => NoPairsFrom(p, "CoinGecko", CryptoPairs)

C27_Witness ==
    /\ pc["fg"] = "done"
    /\ cyc["fg"].forexResp.kind = "ok"
    /\ cyc["fg"].forexResp.result = "success"
    /\ DOMAIN cyc["fg"].forexResp.conversion_rates = {"EUR", "GBP"}
    /\ cyc["fg"].forexResp.conversion_rates["EUR"] = 1
    /\ cyc["fg"].forexResp.conversion_rates["GBP"] = 0
    /\ cyc["fg"].forex = "raised"
    /\ DOMAIN results["fg"].updated_pairs = CryptoPairs
    /\ PairKey("EUR", "USD") \in DOMAIN PairsOf(files["rates"])

\* The pair string of a history record.
PairOfRecord(r) == r.from_currency \o <<"_">> \o r.to_currency

\* C28: in every state reached from empty files, whatever the interleaving of the
\* update cycles, every pair of the snapshot has in the history file at least one
\* record with the same pair and the same rate.
C28_SnapshotBackedByHistory ==
    \A k \in DOMAIN PairsOf(files["rates"]) :
        \E i \in DOMAIN HistoryItems :
            /\ PairOfRecord(HistoryItems[i]) = k
            /\ HistoryItems[i].rate = PairsOf(files["rates"])[k].rate

\* C29: a start() that follows a stop() whose join timed out is effective: once it
\* has returned, and until the next stop(), the scheduler has a running loop.
C29_StartAfterUnconfirmedStop ==
    (/\ mpc = "idle"
     /\ sched.last = "start_noop"
     /\ sched.stopped
     /\ ~sched.confirmed)
        => IsAlive

\* The adapter `name` has an entry in the errors of p's cycle.
Reported(p, name) ==
    \E i \in DOMAIN results[p].errors : Contains(results[p].errors[i], name)

\* C30: an adapter reported in errors leaves no trace of the cycle in the store: the
\* history has no new record of its and none of its pairs is in updated_pairs; and
\* when the cycle has returned, every record it appended is for a pair of
\* updated_pairs that the snapshot holds with the record's rate.
C30_ReportedLeavesNoTrace ==
    \A p \in Procs :
        pc[p] # "idle" =>
            /\ Reported(p, "CoinGecko") =>
                   /\ \A i \in DOMAIN NewRecords(p) : NewRecords(p)[i].source # "CoinGecko"
                   /\ DOMAIN results[p].updated_pairs \cap CryptoPairs = {}
            /\ Reported(p, "ExchangeRate-API") =>
                   /\ \A i \in DOMAIN NewRecords(p) :
                          NewRecords(p)[i].source # "ExchangeRate-API"
                   /\ DOMAIN results[p].updated_pairs \cap FiatPairs = {}
            /\ pc[p] = "done" =>
                   \A i \in DOMAIN NewRecords(p) :
                       LET k == PairOfRecord(NewRecords(p)[i])
                       IN /\ k \in DOMAIN results[p].updated_pairs
                          /\ k \in DOMAIN PairsOf(files["rates"])
                          /\ PairsOf(files["rates"])[k].rate = NewRecords(p)[i].rate

\* The adapters a source label names.
NamedBy(label) ==
    CASE label = "CoinGecko" -> {"crypto"}
      [] label = "ExchangeRate-API" -> {"forex"}
      [] label = "CoinGecko+ExchangeRate-API" -> {"crypto", "forex"}
      [] OTHER -> {}

\* The adapters whose fetch ran and returned in p's cycle.
Succeeded(p) ==
    {ph \in {"crypto", "forex"} :
        (IF ph = "crypto" THEN cyc[p].crypto ELSE cyc[p].forex) = "ok"}

\* C31: the source label a cycle writes names only adapters that ran and succeeded
\* in it; with a single source selected and its adapter succeeding, the quotes
\* written carry that adapter's name.
C31_LabelNamesOnlySucceeded ==
    \A p \in Procs :
        (pc[p] = "done" /\ cyc[p].writes = 1) =>
            \A k \in DOMAIN results[p].updated_pairs :
                /\ k \in DOMAIN PairsOf(files["rates"])
                /\ NamedBy(PairsOf(files["rates"])[k].source) \subseteq Succeeded(p)
                /\ (sel[p] = "coingecko" /\ results[p].errors = <<>>) =>
                       PairsOf(files["rates"])[k].source = "CoinGecko"
                /\ (sel[p] = "exchangerate" /\ results[p].errors = <<>>) =>
                       PairsOf(files["rates"])[k].source = "ExchangeRate-API"

\* Every quote of the snapshot file is not later than the file's last_refresh.
QuotesNotLater(file) ==
    \A k \in DOMAIN PairsOf(file) : PairsOf(file)[k].updated_at <= LastRefreshOf(file)

\* C32: after any sequence of saves made one after the other under a clock that does
\* not go back, every quote's updated_at is at most last_refresh, every pair merged
\* by the latest save has updated_at equal to last_refresh, and last_refresh never
\* decreases.
C32_TimestampsConsistent ==
    /\ [](/\ QuotesNotLater(files["rates"])
          /\ \A p \in Procs :
                (pc[p] = "done" /\ cyc[p].writes = 1) =>
                    \A k \in DOMAIN results[p].updated_pairs :
                        /\ k \in DOMAIN PairsOf(files["rates"])
                        /\ PairsOf(files["rates"])[k].updated_at
                               = LastRefreshOf(files["rates"]))
    /\ [][LastRefreshOf(files["rates"])' >= LastRefreshOf(files["rates"])]_vars

C32_Witness ==
    /\ pc["fg"] = "done"
    /\ cyc["fg"].writes = 1
    /\ LastRefreshOf(files["rates"]) = 1
    /\ DOMAIN results["fg"].updated_pairs = {PairKey("EUR", "USD")}
    /\ PairKey("BTC", "USD") \in DOMAIN PairsOf(files["rates"])
    /\ PairsOf(files["rates"])[PairKey("BTC", "USD")].updated_at = 0
    /\ PairsOf(files["rates"])[PairKey("EUR", "USD")].updated_at = 1

\* C33: a sell that fails leaves the balances unchanged: whatever sell raised for,
\* the portfolio in memory and the one on disk hold what they held before the call.
C33_FailedSellChangesNothing ==
    (acct.last.op = "sell" /\ acct.last.raised) =>
        /\ acct.mem = acct.last.mem0
        /\ acct.disk = acct.last.disk0

\* C34: a wallet's balance is never negative after any sequence of deposit and
\* withdraw calls: a withdraw of more than the balance raises InsufficientFundsError,
\* a deposit or withdraw of an amount that is not positive raises, and a call that
\* raises leaves the balance as it was.
C34_BalanceNeverNegative ==
    /\ \A c \in DOMAIN acct.mem : ~Less(acct.mem[c], Float(0))
    /\ acct.last.op \in {"deposit", "withdraw"} =>
          /\ acct.last.raised => acct.mem = acct.last.mem0
          /\ acct.last.amount <= 0 => acct.last.raised
          /\ (acct.last.op = "withdraw"
                 /\ Less(acct.last.mem0["BTC"], Float(acct.last.amount))) =>
                 (acct.last.raised /\ acct.last.exc = "InsufficientFundsError")

C34_Witness ==
    /\ acct.last.op = "withdraw"
    /\ acct.last.amount = 3
    /\ acct.last.mem0["BTC"] = Float(2)
    /\ acct.last.raised
    /\ acct.mem["BTC"] = Float(2)

====
